---- MODULE Spec2Model ----
(***************************************************************************)
(* DummyFindingDataSource                                                  *)
(* (gitlab-ci/src/dependencies/data_source/dummy_finding_data_source.py)   *)
(*                                                                         *)
(* The class has four methods and no __init__, so an instance carries an   *)
(* empty attribute dictionary.  The model keeps that dictionary, the heap  *)
(* of list objects the `[]` literal of get_risk_assessor allocates, and a  *)
(* set of caller threads, each of which invokes a method (Call...) and     *)
(* later runs its body to the return (Return...).  A caller may append     *)
(* users to the list it was handed.                                        *)
(***************************************************************************)
EXTENDS Integers, Sequences, FiniteSets, TLC

\* ---- bounds of the model ------------------------------------------------
NumThreads == 2
MaxListLen == 1

\* ---- callers, instances and input domains -------------------------------
Thread == 1..NumThreads
Instance == {"ds1", "ds2"}
Repository == {"org/repo", "org/other"}
Scanner == {"scanner-x"}
DependencyId == {"pkg-1"}
DependencyVersion == {"1.2.3"}
CommitType == {"MERGE", "RELEASE"}
CommitHash == {"abc123"}
User == {"alice"}

\* model.finding.Finding, reduced to the coordinates get_open_finding takes
Finding == [repository : Repository, scanner : Scanner,
            dependency_id : DependencyId, dependency_version : DependencyVersion]

\* Python's None; Optional[Finding] is None or a one-element tuple
None == <<>>

\* the attribute dictionary of a freshly constructed instance (no __init__)
FreshInstance == <<>>

\* the heap before any list has been allocated
EmptyHeap == <<>>

VARIABLES attrs, heap, pc, frame, result

vars == <<attrs, heap, pc, frame, result>>

\* ---- the four methods ---------------------------------------------------
\* A method maps the instance's attributes (and, where it allocates, the
\* heap) to an outcome ("return" or "raise"), the value returned and the
\* attributes afterwards.

get_open_finding_echo(self, repository, scanner, dependency_id, dependency_version) ==
    [outcome |-> "return",
     value |-> <<[repository |-> repository, scanner |-> scanner,
                  dependency_id |-> dependency_id,
                  dependency_version |-> dependency_version]>>,
     self |-> self]

get_open_finding_first_repo(self, repository, scanner, dependency_id, dependency_version) ==
    [outcome |-> "return",
     value |-> IF repository = "org/repo"
               THEN <<[repository |-> repository, scanner |-> scanner,
                       dependency_id |-> dependency_id,
                       dependency_version |-> dependency_version]>>
               ELSE None,
     self |-> self]

get_open_finding(self, repository, scanner, dependency_id, dependency_version) ==
    [outcome |-> "return", value |-> None, self |-> self]

commit_has_block_exception_false(self, commit_type, commit_hash) ==
    [outcome |-> "return", value |-> FALSE, self |-> self]

commit_has_block_exception_by_type(self, commit_type, commit_hash) ==
    [outcome |-> "return", value |-> (commit_type = "MERGE"), self |-> self]

commit_has_block_exception_once(self, commit_type, commit_hash) ==
    [outcome |-> "return", value |-> ("granted" \notin DOMAIN self),
     self |-> ("granted" :> TRUE) @@ self]

commit_has_block_exception(self, commit_type, commit_hash) ==
    [outcome |-> "return", value |-> TRUE, self |-> self]

create_or_update_open_finding_store(self, finding) ==
    [outcome |-> "return", value |-> None,
     self |-> ("finding" :> finding) @@ self]

create_or_update_open_finding_abstract(self, finding) ==
    [outcome |-> "raise", value |-> None, self |-> self]

create_or_update_open_finding(self, finding) ==
    [outcome |-> "return", value |-> None, self |-> self]

\* The interpreter state a method body runs in: the list objects on the heap
\* (cells, address -> contents) and the thread that is running (tid).
Memory(cells, tid) == [cells |-> cells, tid |-> tid]

\* The address the next list object gets.  The code never looks at an
\* address, so any unused one will do: the running thread's own slot when it
\* is free, else the lowest free address above the threads' slots.
NewRef(mem) ==
    IF mem.tid \notin DOMAIN mem.cells
    THEN mem.tid
    ELSE CHOOSE r \in (NumThreads + 1)..(NumThreads + Cardinality(DOMAIN mem.cells) + 1) :
            /\ r \notin DOMAIN mem.cells
            /\ \A q \in (NumThreads + 1)..(r - 1) : q \in DOMAIN mem.cells

\* the `[]` literal: a new, empty list object
NewList(mem) == [mem EXCEPT !.cells = (NewRef(mem) :> <<>>) @@ mem.cells]

get_risk_assessor_cached(self, mem) ==
    IF "risk_assessor" \in DOMAIN self
    THEN [outcome |-> "return", value |-> self["risk_assessor"],
          self |-> self, mem |-> mem]
    ELSE [outcome |-> "return", value |-> NewRef(mem),
          self |-> ("risk_assessor" :> NewRef(mem)) @@ self,
          mem |-> NewList(mem)]

get_risk_assessor(self, mem) ==
    [outcome |-> "return", value |-> NewRef(mem), self |-> self,
     mem |-> NewList(mem)]

\* ---- callers --------------------------------------------------------------
\* A caller is idle, inside a call (frame holds the method, the instance and
\* the arguments) or done (result holds what came back).  Next to the
\* outcome and the value, result records the circumstances of the call:
\*   seen        the value, or for a list reference the list's contents at
\*               the moment of the return
\*   kept        the Finding the caller handed to create_or_update_open_finding
\*   written     get_open_finding was invoked after a
\*               create_or_update_open_finding for the same coordinates
\*               had returned on the same instance
\*   appended    get_risk_assessor ran while a list returned earlier had
\*               users appended to it
NoFrame == [op |-> "none", inst |-> "none", args |-> <<>>, written |-> FALSE]

NoResult == [op |-> "none", inst |-> "none", outcome |-> "none",
             value |-> None, seen |-> None, kept |-> None,
             written |-> FALSE, appended |-> FALSE]

Operations == {"get_open_finding", "commit_has_block_exception",
               "create_or_update_open_finding", "get_risk_assessor"}

\* a method that does not allocate leaves the heap as it is
KeepHeap(r, mem) ==
    [outcome |-> r.outcome, value |-> r.value, self |-> r.self, mem |-> mem]

\* dynamic dispatch of a bound call on an instance with attributes self
Exec(f, self, mem) ==
    CASE f.op = "get_open_finding" ->
            KeepHeap(get_open_finding(self, f.args[1], f.args[2], f.args[3], f.args[4]), mem)
      [] f.op = "commit_has_block_exception" ->
            KeepHeap(commit_has_block_exception(self, f.args[1], f.args[2]), mem)
      [] f.op = "create_or_update_open_finding" ->
            KeepHeap(create_or_update_open_finding(self, f.args[1]), mem)
      [] f.op = "get_risk_assessor" ->
            get_risk_assessor(self, mem)

\* what the caller sees when the call returns: the value, or for a list
\* reference the contents of the list at that moment
Seen(f, r) ==
    IF f.op = "get_risk_assessor" /\ r.outcome = "return"
    THEN r.mem.cells[r.value]
    ELSE r.value

\* the outcome and the value seen of a call
Observe(f, self, mem) ==
    LET r == Exec(f, self, mem)
    IN  [outcome |-> r.outcome, seen |-> Seen(f, r)]

\* every call a caller can make
Calls ==
    [op : {"get_open_finding"}, inst : Instance,
     args : Repository \X Scanner \X DependencyId \X DependencyVersion]
    \cup [op : {"commit_has_block_exception"}, inst : Instance,
          args : CommitType \X CommitHash]
    \cup [op : {"create_or_update_open_finding"}, inst : Instance,
          args : {<<x>> : x \in Finding}]
    \cup [op : {"get_risk_assessor"}, inst : Instance, args : {<<>>}]

\* list references the instances hold in their attributes
AttrRefs ==
    UNION {{attrs[i][k] : k \in DOMAIN attrs[i] \cap {"risk_assessor"}} : i \in Instance}

\* list references held by callers other than t
HeldRefs(t) ==
    {result[u].value : u \in {v \in Thread \ {t} :
        /\ pc[v] = "done"
        /\ result[v].op = "get_risk_assessor"
        /\ result[v].outcome = "return"}}

\* the Finding whose coordinates a get_open_finding call asks for
Coordinates(f) ==
    [repository |-> f.args[1], scanner |-> f.args[2],
     dependency_id |-> f.args[3], dependency_version |-> f.args[4]]

\* the findings that have been handed to instance i by a
\* create_or_update_open_finding call that has returned
Created(i) ==
    {result[u].kept[1] : u \in {v \in Thread :
        /\ pc[v] = "done"
        /\ result[v].op = "create_or_update_open_finding"
        /\ result[v].inst = i
        /\ result[v].outcome = "return"}}

\* the frame of call c, made in the current state
Frame(c) ==
    [op |-> c.op, inst |-> c.inst, args |-> c.args,
     written |-> c.op = "get_open_finding" /\ Coordinates(c) \in Created(c.inst)]

\* another call is in progress on the instance caller t is calling
Overlapping(t) ==
    \E u \in Thread \ {t} : pc[u] = "called" /\ frame[u].inst = frame[t].inst

\* some list handed out earlier has had users appended to it
SomeListAppended ==
    \E q \in DOMAIN heap : heap[q] # <<>>

TypeOK ==
    /\ pc \in [Thread -> {"idle", "called", "done"}]
    /\ \A t \in Thread :
          \/ frame[t] = NoFrame
          \/ [op |-> frame[t].op, inst |-> frame[t].inst, args |-> frame[t].args] \in Calls
    /\ \A t \in Thread : (pc[t] = "called") <=> (frame[t] # NoFrame)
    /\ \A t \in Thread : (pc[t] = "done") <=> (result[t] # NoResult)
    /\ \A r \in DOMAIN heap : Len(heap[r]) <= MaxListLen

Init ==
    /\ attrs = [i \in Instance |-> FreshInstance]
    /\ heap = EmptyHeap
    /\ pc = [t \in Thread |-> "idle"]
    /\ frame = [t \in Thread |-> NoFrame]
    /\ result = [t \in Thread |-> NoResult]

\* caller t binds the arguments of a call; the result of its previous call
\* goes out of scope and a list nobody refers to any more is reclaimed
Invoke(t, c) ==
    /\ pc[t] \in {"idle", "done"}
    /\ pc' = [pc EXCEPT ![t] = "called"]
    /\ frame' = [frame EXCEPT ![t] = Frame(c)]
    /\ result' = [result EXCEPT ![t] = NoResult]
    /\ heap' = [r \in DOMAIN heap \cap (HeldRefs(t) \cup AttrRefs) |-> heap[r]]
    /\ UNCHANGED attrs

\* the body of the method caller t is in runs to its end and the frame is
\* popped
Complete(t) ==
    LET f == frame[t]
        r == Exec(f, attrs[f.inst], Memory(heap, t))
    IN  /\ pc' = [pc EXCEPT ![t] = "done"]
        /\ frame' = [frame EXCEPT ![t] = NoFrame]
        /\ attrs' = [attrs EXCEPT ![f.inst] = r.self]
        /\ heap' = r.mem.cells
        /\ result' = [result EXCEPT ![t] =
              [op |-> f.op,
               inst |-> f.inst,
               outcome |-> r.outcome,
               value |-> r.value,
               seen |-> Seen(f, r),
               kept |-> IF f.op = "create_or_update_open_finding"
                        THEN <<f.args[1]>> ELSE None,
               written |-> f.written,
               appended |-> f.op = "get_risk_assessor" /\ SomeListAppended]]

CallGetOpenFinding(t) ==
    \E i \in Instance, a \in Repository \X Scanner \X DependencyId \X DependencyVersion :
        Invoke(t, [op |-> "get_open_finding", inst |-> i, args |-> a])

ReturnGetOpenFinding(t) ==
    /\ pc[t] = "called"
    /\ frame[t].op = "get_open_finding"
    /\ Complete(t)

CallCommitHasBlockException(t) ==
    \E i \in Instance, a \in CommitType \X CommitHash :
        Invoke(t, [op |-> "commit_has_block_exception", inst |-> i, args |-> a])

ReturnCommitHasBlockException(t) ==
    /\ pc[t] = "called"
    /\ frame[t].op = "commit_has_block_exception"
    /\ Complete(t)

CallCreateOrUpdateOpenFinding(t) ==
    \E i \in Instance, x \in Finding :
        Invoke(t, [op |-> "create_or_update_open_finding", inst |-> i, args |-> <<x>>])

ReturnCreateOrUpdateOpenFinding(t) ==
    /\ pc[t] = "called"
    /\ frame[t].op = "create_or_update_open_finding"
    /\ Complete(t)

CallGetRiskAssessor(t) ==
    \E i \in Instance :
        Invoke(t, [op |-> "get_risk_assessor", inst |-> i, args |-> <<>>])

ReturnGetRiskAssessor(t) ==
    /\ pc[t] = "called"
    /\ frame[t].op = "get_risk_assessor"
    /\ Complete(t)

\* caller t appends a user to the list its get_risk_assessor call returned
AppendUser(t) ==
    /\ pc[t] = "done"
    /\ result[t].op = "get_risk_assessor"
    /\ result[t].outcome = "return"
    /\ Len(heap[result[t].value]) < MaxListLen
    /\ \E u \in User :
          heap' = [heap EXCEPT ![result[t].value] = Append(@, u)]
    /\ UNCHANGED <<attrs, pc, frame, result>>

Next ==
    \E t \in Thread :
        \/ CallGetOpenFinding(t)
        \/ ReturnGetOpenFinding(t)
        \/ CallCommitHasBlockException(t)
        \/ ReturnCommitHasBlockException(t)
        \/ CallCreateOrUpdateOpenFinding(t)
        \/ ReturnCreateOrUpdateOpenFinding(t)
        \/ CallGetRiskAssessor(t)
        \/ ReturnGetRiskAssessor(t)
        \/ AppendUser(t)

Spec == Init /\ [][Next]_vars

\* ---- properties ---------------------------------------------------------
Done(t, op) ==
    pc[t] = "done" /\ result[t].op = op

\* what caller t got back from the call it has finished
Observed(t) ==
    [outcome |-> result[t].outcome, seen |-> result[t].seen]

\* the calls of one method
CallsOf(op) == {c \in Calls : c.op = op}

\* C1: get_open_finding returns None for every repository, scanner,
\* dependency id and dependency version, in every reachable state: every
\* finished call has returned None, and a call made now with any arguments on
\* any instance would.
C1_GetOpenFindingReturnsNone ==
    /\ \A t \in Thread :
          Done(t, "get_open_finding") =>
              result[t].outcome = "return" /\ result[t].value = None
    /\ \A c \in CallsOf("get_open_finding") :
          get_open_finding(attrs[c.inst], c.args[1], c.args[2], c.args[3],
                           c.args[4]).value = None

\* a get_open_finding call has returned on an instance another caller has
\* called before
C1_Witness ==
    \E t \in Thread, u \in Thread :
        /\ t # u
        /\ Done(t, "get_open_finding")
        /\ pc[u] = "done"
        /\ result[u].op # "get_open_finding"
        /\ result[u].inst = result[t].inst

\* C2: commit_has_block_exception returns true for every commit type and
\* commit hash, in every reachable state; it never returns false.
C2_CommitAlwaysHasBlockException ==
    /\ \A t \in Thread :
          Done(t, "commit_has_block_exception") =>
              result[t].outcome = "return" /\ result[t].value = TRUE
    /\ \A c \in CallsOf("commit_has_block_exception") :
          commit_has_block_exception(attrs[c.inst], c.args[1], c.args[2]).value = TRUE

\* a commit_has_block_exception call has returned on an instance another
\* caller has called before
C2_Witness ==
    \E t \in Thread, u \in Thread :
        /\ t # u
        /\ Done(t, "commit_has_block_exception")
        /\ pc[u] = "done"
        /\ result[u].op # "commit_has_block_exception"
        /\ result[u].inst = result[t].inst

\* C3: a create_or_update_open_finding call returns normally and leaves the
\* instances' attributes and the heap as they were, so that every call gives
\* the same outcome and value after it as before it.
C3_CreateOrUpdateChangesNothing ==
    [][\A t \in Thread :
          ReturnCreateOrUpdateOpenFinding(t) =>
              /\ result'[t].outcome = "return"
              /\ attrs' = attrs
              /\ heap' = heap
              /\ \A c \in Calls :
                    Observe(c, attrs'[c.inst], Memory(heap', t))
                        = Observe(c, attrs[c.inst], Memory(heap, t))]_vars

\* a create_or_update_open_finding call has returned
C3_Witness ==
    \E t \in Thread :
        /\ Done(t, "create_or_update_open_finding")
        /\ result[t].kept \in {<<x>> : x \in Finding}

\* C4: every get_risk_assessor call returns an empty sequence, however many
\* calls came before it: every finished call saw an empty list when it
\* returned, and a call made now on any instance by any caller would.
C4_RiskAssessorAlwaysEmpty ==
    /\ \A t \in Thread :
          Done(t, "get_risk_assessor") =>
              result[t].outcome = "return" /\ result[t].seen = <<>>
    /\ \A c \in CallsOf("get_risk_assessor"), t \in Thread :
          Observe(c, attrs[c.inst], Memory(heap, t)).seen = <<>>

\* two get_risk_assessor calls have returned on the same instance
C4_Witness ==
    \E t \in Thread, u \in Thread :
        /\ t # u
        /\ Done(t, "get_risk_assessor")
        /\ Done(u, "get_risk_assessor")
        /\ result[u].inst = result[t].inst

\* C5: the data source is stateless: in every reachable state every call
\* gives the outcome and the value it gives on a freshly constructed
\* instance.
C5_Stateless ==
    \A c \in Calls, t \in Thread :
        Observe(c, attrs[c.inst], Memory(heap, t))
            = Observe(c, FreshInstance, Memory(EmptyHeap, t))

\* an instance has taken a create_or_update_open_finding call and a
\* commit_has_block_exception call
C5_Witness ==
    \E t \in Thread, u \in Thread :
        /\ Done(t, "create_or_update_open_finding")
        /\ Done(u, "commit_has_block_exception")
        /\ result[u].inst = result[t].inst

\* C6: the four operations are total: every call ends with a normal return,
\* for every input and in every reachable state.
C6_Total ==
    /\ \A t \in Thread : pc[t] = "done" => result[t].outcome = "return"
    /\ \A c \in Calls, t \in Thread :
          Exec(c, attrs[c.inst], Memory(heap, t)).outcome = "return"

\* every caller has finished a call, and not all the same operation
C6_Witness ==
    /\ \A t \in Thread : pc[t] = "done" /\ result[t].outcome = "return"
    /\ \E t \in Thread, u \in Thread : result[t].op # result[u].op

\* the return of the call caller t is in
ReturnOf(t) ==
    \/ ReturnGetOpenFinding(t)
    \/ ReturnCommitHasBlockException(t)
    \/ ReturnCreateOrUpdateOpenFinding(t)
    \/ ReturnGetRiskAssessor(t)

\* C7: the operations are thread-safe: a call in progress can always return
\* (it waits for no other call), and a call that returns while another call
\* is in progress on the same instance gives what it gives when run alone on
\* a fresh instance.
C7_ThreadSafe ==
    [][\A t \in Thread :
          pc[t] = "called" =>
              /\ ENABLED ReturnOf(t)
              /\ (ReturnOf(t) /\ Overlapping(t)) =>
                    Observed(t)' = Observe(frame[t], FreshInstance,
                                           Memory(EmptyHeap, t))]_vars

\* A call has returned while another call was in progress on the instance:
\* caller t's create_or_update_open_finding has returned, and caller u is
\* still inside a get_open_finding for the same coordinates on the same
\* instance whose frame says that, when u made the call, t's had not returned.
C7_Witness ==
    \E t \in Thread, u \in Thread :
        /\ Done(t, "create_or_update_open_finding")
        /\ result[t].outcome = "return"
        /\ pc[u] = "called"
        /\ frame[u].op = "get_open_finding"
        /\ frame[u].inst = result[t].inst
        /\ <<Coordinates(frame[u])>> = result[t].kept
        /\ ~frame[u].written

\* C8: write-then-read returns nothing: a get_open_finding invoked with the
\* coordinates of a Finding that create_or_update_open_finding has taken on
\* the same instance returns None.
C8_WriteThenReadReturnsNone ==
    /\ \A t \in Thread :
          (Done(t, "get_open_finding") /\ result[t].written) =>
              result[t].value = None
    /\ \A c \in CallsOf("get_open_finding") :
          Coordinates(c) \in Created(c.inst) =>
              get_open_finding(attrs[c.inst], c.args[1], c.args[2], c.args[3],
                               c.args[4]).value = None

\* a get_open_finding for coordinates written before has returned
C8_Witness ==
    \E t \in Thread :
        /\ Done(t, "get_open_finding")
        /\ result[t].written
        /\ result[t].outcome = "return"

\* C9: every get_risk_assessor call returns a list of its own: no instance
\* and no other caller holds the list a caller was handed, and a call that
\* runs after users were appended to a list handed out earlier still sees an
\* empty list.
C9_FreshListPerCall ==
    \A t \in Thread :
        Done(t, "get_risk_assessor") =>
            /\ result[t].value \in DOMAIN heap
            /\ result[t].value \notin AttrRefs
            /\ result[t].value \notin HeldRefs(t)
            /\ result[t].appended => result[t].seen = <<>>

\* a get_risk_assessor call has returned after another caller appended users
\* to its list, which that caller still holds
C9_Witness ==
    \E t \in Thread, u \in Thread :
        /\ t # u
        /\ Done(t, "get_risk_assessor")
        /\ result[t].appended
        /\ Done(u, "get_risk_assessor")
        /\ heap[result[u].value] # <<>>

\* C10: the results do not depend on the arguments, the instance or the
\* call history: two finished calls of the same operation got the same
\* result, and two calls of the same operation made now, with any arguments
\* on any instances by any callers, would.
C10_ResultsIndependentOfInputs ==
    /\ \A t \in Thread, u \in Thread :
          (pc[t] = "done" /\ pc[u] = "done" /\ result[t].op = result[u].op) =>
              Observed(t) = Observed(u)
    /\ \A op \in Operations :
          LET now == {Observe(c, attrs[c.inst], Memory(heap, t)) :
                          c \in CallsOf(op), t \in Thread}
          IN  \A x \in now, y \in now : x = y

\* the same operation has returned on both instances
C10_Witness ==
    \E t \in Thread, u \in Thread :
        /\ pc[t] = "done"
        /\ pc[u] = "done"
        /\ result[t].op = result[u].op
        /\ result[t].inst # result[u].inst

====
